---- MODULE Spec2Model ----
(***************************************************************************)
(* AraBul (src/v1_12.py): the text normalizer, the hyphenation bonding,    *)
(* the per-page word-window matcher and the search session (UI thread,     *)
(* worker threads, the queue of root.after callbacks).                     *)
(*                                                                         *)
(* Text is a sequence of Unicode code points (Python's ord of each         *)
(* character), so "Cafe" is <<67, 97, 102, 101>>.                          *)
(***************************************************************************)
EXTENDS Integers, Sequences, FiniteSets, TLC

VARIABLES
    \* normalize applied once and twice to one text
    nx, ny, nz, npc,
    \* one page searched for one term: the term, the exact-match flag, the
    \* page, the bonded runs, the records found
    pterm, pexact, ppage, pblocks, pmatches, ppc,
    \* a page word, a term that differs from it in letter case and diacritics
    \* only, whether a case change went through dotless i, the records found
    fx, fy, fmatches, fpc,
    \* one document searched for one term: the term, the exact-match flag,
    \* the document, what search_text_in_pdf returned
    dterm, dexact, ddoc, dmatches, dpc,
    \* the search session: the configured folder, self.results,
    \* self._cancel_event, the widgets, the pending root.after callbacks in
    \* the order they were scheduled, and the _run_search threads started
    folder, results, cancel_event, ui, after, workers

normVars == <<nx, ny, nz, npc>>
pageVars == <<pterm, pexact, ppage, pblocks, pmatches, ppc>>
foldVars == <<fx, fy, fmatches, fpc>>
docVars == <<dterm, dexact, ddoc, dmatches, dpc>>
appVars == <<folder, results, cancel_event, ui, after, workers>>
vars == <<normVars, pageVars, foldVars, docVars, appVars>>

(***************************************************************************)
(* Sequence helpers                                                        *)
(***************************************************************************)
RECURSIVE Flatten(_)
\* ''.join(parts) for a sequence of texts
Flatten(parts) ==
    IF parts = <<>> THEN <<>> ELSE Head(parts) \o Flatten(Tail(parts))

\* all texts over alphabet A of length 0..n
TextsUpTo(A, n) == UNION {[1..k -> A] : k \in 0..n}

(***************************************************************************)
(* Unicode data (Python 3.11 unicodedata, Unicode 14) of the code points   *)
(* the model draws its texts from.                                         *)
(***************************************************************************)
\* src/v1_12.py:185-194
HYPHENS == {173, 45, 8208, 8209, 8210, 8211, 8212, 8213}

\* unicodedata.category(c), for the four classes normalize tests
category(c) ==
    CASE c \in (0..31) \cup (127..159)                              -> "Cc"
      [] c \in {173, 65279} \cup (8203..8207)                       -> "Cf"
      [] c \in {32, 160, 5760, 8239, 8287, 12288} \cup (8192..8202) -> "Zs"
      [] c \in 768..879                                             -> "Mn"
      [] OTHER                                                      -> "other"

\* the characters Python's regular expression class \s matches
IsWhitespace(c) ==
    c \in (9..13) \cup (28..32) \cup {133, 160, 5760, 8232, 8233, 8239, 8287, 12288}
          \cup (8192..8202)

\* unicodedata.normalize('NFKD', c) of one character
Decompose(c) ==
    CASE c = 160   -> <<32>>          \* NO-BREAK SPACE -> SPACE
      [] c = 168   -> <<32, 776>>     \* DIAERESIS -> SPACE, COMBINING DIAERESIS
      [] c = 194   -> <<65, 770>>     \* A WITH CIRCUMFLEX
      [] c = 201   -> <<69, 769>>     \* E WITH ACUTE (capital)
      [] c = 233   -> <<101, 769>>    \* e with acute
      [] c = 304   -> <<73, 775>>     \* I WITH DOT ABOVE (capital)
      [] c = 8209  -> <<8208>>        \* NON-BREAKING HYPHEN -> HYPHEN
      [] c = 65123 -> <<45>>          \* SMALL HYPHEN-MINUS -> HYPHEN-MINUS
      [] c = 65293 -> <<45>>          \* FULLWIDTH HYPHEN-MINUS -> HYPHEN-MINUS
      [] OTHER     -> <<c>>

\* unicodedata.combining(c) is non-zero
IsCombining(c) == c \in 768..879

\* str.lower() of one character
LowerChar(c) ==
    CASE c \in 65..90   -> <<c + 32>>       \* A..Z
      [] c \in 192..222 /\ c # 215 -> <<c + 32>>  \* Latin-1 capitals
      [] c = 304        -> <<105, 775>>    \* I WITH DOT ABOVE -> i, COMBINING DOT ABOVE
      [] c = 321        -> <<322>>         \* L WITH STROKE
      [] c = 931        -> <<963>>         \* CAPITAL SIGMA -> SMALL SIGMA
      [] OTHER          -> <<c>>

\* the character has the property Cased (a letter with a case)
IsCased(c) ==
    c \in (65..90) \cup (97..122) \cup {170, 181, 186} \cup (192..214)
          \cup (216..246) \cup (248..255) \cup {304, 305, 321, 322, 931, 962, 963}

\* the character has the property Case_Ignorable
IsCaseIgnorable(c) ==
    c \in (768..879) \cup {39, 46, 58, 94, 96, 168, 173, 175, 180, 183, 184}
          \cup (8203..8207) \cup {65279}

(***************************************************************************)
(* normalize, src/v1_12.py:196-219                                         *)
(***************************************************************************)
\* lines 201-204: drop Cf, Cc, Zs and Mn characters other than the plain space
StripInvisible(text) ==
    SelectSeq(text, LAMBDA c : ~(category(c) \in {"Cf", "Cc", "Zs", "Mn"} /\ c # 32))

\* lines 205-206: result.replace(hyphen, '') for every hyphen of the catalogue
RemoveHyphens(text) == SelectSeq(text, LAMBDA c : c \notin HYPHENS)

\* line 207: replace U+00AD, U+FEFF and U+200F by ''
RemoveStray(text) == SelectSeq(text, LAMBDA c : c \notin {173, 65279, 8207})

RECURSIVE RemoveLineBreaks(_)
\* line 208: re.sub of  A-circumflex soft-hyphen newline | hyphen newline | newline
RemoveLineBreaks(text) ==
    IF text = <<>> THEN <<>>
    ELSE IF Len(text) >= 3 /\ text[1] = 194 /\ text[2] = 173 /\ text[3] = 10
         THEN RemoveLineBreaks(SubSeq(text, 4, Len(text)))
    ELSE IF Len(text) >= 2 /\ text[1] = 45 /\ text[2] = 10
         THEN RemoveLineBreaks(SubSeq(text, 3, Len(text)))
    ELSE IF text[1] = 10
         THEN RemoveLineBreaks(Tail(text))
    ELSE <<text[1]>> \o RemoveLineBreaks(Tail(text))

RECURSIVE SquashRuns(_)
\* re.sub(r'\s+', ' ', text): every run of whitespace becomes one space
SquashRuns(text) ==
    IF text = <<>> THEN <<>>
    ELSE IF IsWhitespace(text[1])
         THEN IF Len(text) >= 2 /\ IsWhitespace(text[2])
              THEN SquashRuns(Tail(text))
              ELSE <<32>> \o SquashRuns(Tail(text))
         ELSE <<text[1]>> \o SquashRuns(Tail(text))

RECURSIVE LStrip(_)
LStrip(text) ==
    IF text # <<>> /\ IsWhitespace(text[1]) THEN LStrip(Tail(text)) ELSE text

RECURSIVE RStrip(_)
RStrip(text) ==
    IF text # <<>> /\ IsWhitespace(text[Len(text)])
    THEN RStrip(SubSeq(text, 1, Len(text) - 1)) ELSE text

\* line 210: re.sub(r'\s+', ' ', result).strip()
CollapseWhitespace(text) == RStrip(LStrip(SquashRuns(text)))

\* line 212: unicodedata.normalize('NFKD', result)
NFKD(text) == Flatten([i \in 1..Len(text) |-> Decompose(text[i])])

\* line 213: drop the combining characters
RemoveCombining(text) == SelectSeq(text, LAMBDA c : ~IsCombining(c))

\* str.lower() for CAPITAL SIGMA at position i: FINAL SIGMA when the nearest
\* character before it that is not case-ignorable is cased and the nearest
\* one after it, if any, is not
IsFinalSigma(text, i) ==
    LET before == {j \in 1..(i - 1) : ~IsCaseIgnorable(text[j])}
        behind == {j \in (i + 1)..Len(text) : ~IsCaseIgnorable(text[j])}
        prev   == CHOOSE j \in before : \A k \in before : k <= j
        next   == CHOOSE j \in behind : \A k \in behind : j <= k
    IN  /\ before # {} /\ IsCased(text[prev])
        /\ behind # {} => ~IsCased(text[next])

\* line 215: result.lower()
Lower(text) ==
    Flatten([i \in 1..Len(text) |->
                IF text[i] = 931 /\ IsFinalSigma(text, i) THEN <<962>>
                ELSE LowerChar(text[i])])

\* line 217: arabic_reshaper.reshape passes every character that is no Arabic
\* letter through unchanged; the texts of this model hold no Arabic letter
reshape(text) == text

normalize_flags(text, lowercase, remove_accents, remove_whitespaces) ==
    IF text = <<>> THEN <<>>
    ELSE LET r1 == RemoveLineBreaks(RemoveStray(RemoveHyphens(StripInvisible(text))))
             r2 == IF remove_whitespaces THEN CollapseWhitespace(r1) ELSE r1
             r3 == IF remove_accents THEN RemoveCombining(NFKD(r2)) ELSE r2
             r4 == IF lowercase THEN Lower(r3) ELSE r3
         IN  reshape(r4)

\* normalize with its default flags, as every caller uses it
normalize(text) == normalize_flags(text, TRUE, TRUE, TRUE)

(***************************************************************************)
(* Python string operations used by the matcher                            *)
(***************************************************************************)
\* needle in hay
IsSubstring(needle, hay) ==
    \E k \in 0..(Len(hay) - Len(needle)) :
        SubSeq(hay, k + 1, k + Len(needle)) = needle

\* hay.find(needle): the lowest 0-based index, or -1
Find(hay, needle) ==
    IF IsSubstring(needle, hay)
    THEN CHOOSE k \in 0..(Len(hay) - Len(needle)) :
            /\ SubSeq(hay, k + 1, k + Len(needle)) = needle
            /\ \A j \in 0..(k - 1) : SubSeq(hay, j + 1, j + Len(needle)) # needle
    ELSE -1

\* text[start:end] for 0 <= start, 0 <= end (Python clamps both to the length)
Slice(text, start, end) ==
    LET hi == IF end > Len(text) THEN Len(text) ELSE end
    IN  IF start >= hi THEN <<>> ELSE SubSeq(text, start + 1, hi)

RECURSIVE SplitFrom(_, _)
\* text.split(): the maximal runs of non-whitespace characters; cur is the run
\* being read
SplitFrom(text, cur) ==
    IF text = <<>> THEN (IF cur = <<>> THEN <<>> ELSE <<cur>>)
    ELSE IF IsWhitespace(text[1])
         THEN (IF cur = <<>> THEN <<>> ELSE <<cur>>) \o SplitFrom(Tail(text), <<>>)
         ELSE SplitFrom(Tail(text), Append(cur, text[1]))

Split(text) == SplitFrom(text, <<>>)

RECURSIVE JoinSpace(_)
\* ' '.join(parts)
JoinSpace(parts) ==
    IF parts = <<>> THEN <<>>
    ELSE IF Len(parts) = 1 THEN parts[1]
    ELSE parts[1] \o <<32>> \o JoinSpace(Tail(parts))

\* the line boundaries str.splitlines() splits on
IsLineBreak(c) == c \in {10, 11, 12, 13, 28, 29, 30, 133, 8232, 8233}

RECURSIVE SplitLinesFrom(_, _)
\* text.splitlines(): cur is the line being read; "\r\n" is one boundary and a
\* final boundary opens no empty last line
SplitLinesFrom(text, cur) ==
    IF text = <<>> THEN (IF cur = <<>> THEN <<>> ELSE <<cur>>)
    ELSE IF Len(text) >= 2 /\ text[1] = 13 /\ text[2] = 10
         THEN <<cur>> \o SplitLinesFrom(SubSeq(text, 3, Len(text)), <<>>)
    ELSE IF IsLineBreak(text[1])
         THEN <<cur>> \o SplitLinesFrom(Tail(text), <<>>)
    ELSE SplitLinesFrom(Tail(text), Append(cur, text[1]))

SplitLines(text) == SplitLinesFrom(text, <<>>)

(***************************************************************************)
(* A page as the PDF library hands it over.  A page is a sequence of cells *)
(* in reading order, each a word and whether a line ends after it; word k  *)
(* has rectangle k.  text_ok / words_ok: whether page.get_text("text") and *)
(* page.get_text("words") succeed.  A page whose text extraction raises    *)
(* also says whether the pymupdf of the installation has the attribute     *)
(* fitz (fitz_attr), which the except clause of get_pdf_text names.        *)
(***************************************************************************)
\* page.get_text("text"): the words of a line separated by spaces, every line
\* ended by a newline
PageText(page) ==
    Flatten([k \in 1..Len(page.cells) |->
                page.cells[k].text
                \o (IF page.cells[k].eol \/ k = Len(page.cells) THEN <<10>> ELSE <<32>>)])

\* src/v1_12.py:281: [(w[4], pymupdf.Rect(*w[:4])) for w in page.get_text("words")]
PageWords(page) == [k \in 1..Len(page.cells) |-> <<page.cells[k].text, k>>]

\* src/v1_12.py:237-245: when page.get_text raises, the except clause of line
\* 241 evaluates pymupdf.fitz.FileDataError; without the attribute fitz that
\* raises AttributeError out of get_pdf_text
get_pdf_text_raises(page) == ~page.text_ok /\ ~page.fitz_attr

\* src/v1_12.py:237-245, when it returns: a failing extraction is logged and
\* "" is returned
get_pdf_text(page) == IF page.text_ok THEN PageText(page) ELSE <<>>

(***************************************************************************)
(* bond_hyphenated_words, src/v1_12.py:221-230                             *)
(***************************************************************************)
\* line 225: word.endswith(HYPHENS)
EndsWithHyphen(word) == word # <<>> /\ word[Len(word)] \in HYPHENS

\* the merge that keeps the hyphen (a mutation of MergeWords)
MergeWords_keep_hyphen(entry, next_entry) == <<entry[1] \o next_entry[1], entry[2]>>

\* line 227: (word[:-1] + next_word, rect)
MergeWords(entry, next_entry) ==
    <<SubSeq(entry[1], 1, Len(entry[1]) - 1) \o next_entry[1], entry[2]>>

RECURSIVE BondFrom_advance(_, _)
\* the loop that moves on after every merge (a mutation of BondFrom)
BondFrom_advance(words, i) ==
    IF ~(i < Len(words)) THEN words
    ELSE IF EndsWithHyphen(words[i][1])
         THEN BondFrom_advance(SubSeq(words, 1, i - 1)
                                  \o <<MergeWords(words[i], words[i + 1])>>
                                  \o SubSeq(words, i + 2, Len(words)), i + 1)
         ELSE BondFrom_advance(words, i + 1)

RECURSIVE BondFrom(_, _)
\* the while loop from index i (1-based here, i - 1 in the source)
BondFrom(words, i) ==
    IF ~(i < Len(words)) THEN words
    ELSE IF EndsWithHyphen(words[i][1])
         THEN BondFrom(SubSeq(words, 1, i - 1)
                          \o <<MergeWords(words[i], words[i + 1])>>
                          \o SubSeq(words, i + 2, Len(words)), i)
         ELSE BondFrom(words, i + 1)

bond_hyphenated_words(words) == BondFrom(words, 1)

(***************************************************************************)
(* search_text_in_pdf, src/v1_12.py:260-292                                *)
(***************************************************************************)
\* lines 277-279 and 291: "...{raw[start:end]}..." with its lines joined by spaces
Snippet(raw, index, term) ==
    LET start == IF index - 30 > 0 THEN index - 30 ELSE 0
        end   == index + Len(term) + 30
    IN  JoinSpace(SplitLines(<<46, 46, 46>> \o Slice(raw, start, end) \o <<46, 46, 46>>))

\* line 287: range(len(word_blocks) - n + 1)
WindowStarts(len, n) == 0..(len - n)

\* line 288 and 290: word_blocks[i:i+n]
Window(word_blocks, i, n) == Slice(word_blocks, i, i + n)

\* line 288: ' '.join(normalize(w[0]) for w in word_blocks[i:i+n])
WindowText(word_blocks, i, n) ==
    LET w == Window(word_blocks, i, n)
    IN  JoinSpace([k \in 1..Len(w) |-> normalize(w[k][1])])

\* the comparison that ignores exact_match (a mutation of WindowMatches)
WindowMatches_substring(term, seq, exact_match) == IsSubstring(term, seq)

\* line 289: term == seq if exact_match else term in seq
WindowMatches(term, seq, exact_match) ==
    IF exact_match THEN term = seq ELSE IsSubstring(term, seq)

\* the rectangles of every run from the window start on (a mutation of
\* WindowRects)
WindowRects_to_end(word_blocks, i, n) ==
    LET w == Slice(word_blocks, i, Len(word_blocks))
    IN  [k \in 1..Len(w) |-> w[k][2]]

\* line 290: [w[1] for w in word_blocks[i:i+n]]
WindowRects(word_blocks, i, n) ==
    LET w == Window(word_blocks, i, n)
    IN  [k \in 1..Len(w) |-> w[k][2]]

RECURSIVE ScanWindows(_, _, _, _, _, _)
\* lines 287-291: the windows from start i in increasing order; head is the
\* part of a record all the matches of the page share
ScanWindows(word_blocks, term, n, exact_match, head, i) ==
    IF i \notin WindowStarts(Len(word_blocks), n) THEN <<>>
    ELSE (IF WindowMatches(term, WindowText(word_blocks, i, n), exact_match)
          THEN <<[src |-> head.src, page |-> head.page,
                  rects |-> WindowRects(word_blocks, i, n),
                  snippet |-> head.snippet]>>
          ELSE <<>>)
         \o ScanWindows(word_blocks, term, n, exact_match, head, i + 1)

\* lines 267-291: the body of the page loop for the page of number
\* page_number (page.number + 1); term is already normalized
SearchPage(name, page_number, page, term, exact_match) ==
    LET raw       == get_pdf_text(page)
        page_text == normalize(raw)
        index     == Find(page_text, term)
    IN  IF get_pdf_text_raises(page) THEN <<>>      \* lines 270-272
        ELSE IF index = -1 THEN <<>>                \* lines 274-275
        ELSE IF ~page.words_ok THEN <<>>            \* lines 282-284
        ELSE ScanWindows(bond_hyphenated_words(PageWords(page)), term,
                         Len(Split(term)), exact_match,
                         [src |-> name, page |-> page_number,
                          snippet |-> Snippet(raw, index, term)], 0)

\* lines 262-292 for a document that opens: the matches of the pages in order
search_pages(doc, search_term, exact_match) ==
    LET term == normalize(search_term)
    IN  Flatten([p \in 1..Len(doc.pages) |->
                    SearchPage(doc.name, p, doc.pages[p], term, exact_match)])

(***************************************************************************)
(* SpecNorm: normalize applied to a text, and again to its result          *)
(***************************************************************************)
MaxLen == 3

\* newline, space, hyphen-minus, A, a, no-break space, diaeresis, soft hyphen,
\* e with acute, combining acute, small hyphen-minus
NormAlphabet == {10, 32, 45, 65, 97, 160, 168, 173, 233, 769, 65123}

PageIdle ==
    /\ pterm = <<>> /\ pexact = FALSE /\ ppage = <<>> /\ pblocks = <<>>
    /\ pmatches = <<>> /\ ppc = "idle"

FoldIdle ==
    /\ fx = <<>> /\ fy = <<>> /\ fmatches = <<>> /\ fpc = "idle"

DocIdle ==
    /\ dterm = <<>> /\ dexact = FALSE /\ ddoc = <<>> /\ dmatches = <<>>
    /\ dpc = "idle"

AppIdle ==
    /\ folder = <<>> /\ results = <<>> /\ cancel_event = FALSE /\ ui = <<>>
    /\ after = <<>> /\ workers = <<>>

NormInit ==
    /\ nx \in TextsUpTo(NormAlphabet, MaxLen)
    /\ ny = <<>>
    /\ nz = <<>>
    /\ npc = "input"

NormIdle == nx = <<>> /\ ny = <<>> /\ nz = <<>> /\ npc = "idle"

NormalizeOnce ==
    /\ npc = "input"
    /\ ny' = normalize(nx)
    /\ npc' = "once"
    /\ UNCHANGED <<nx, nz>>
    /\ UNCHANGED <<pageVars, foldVars, docVars, appVars>>

NormalizeTwice ==
    /\ npc = "once"
    /\ nz' = normalize(ny)
    /\ npc' = "twice"
    /\ UNCHANGED <<nx, ny>>
    /\ UNCHANGED <<pageVars, foldVars, docVars, appVars>>

NormNext == NormalizeOnce \/ NormalizeTwice

InitNorm == NormInit /\ PageIdle /\ FoldIdle /\ DocIdle /\ AppIdle

SpecNorm == InitNorm /\ [][NormNext]_vars

\* C5: normalize(normalize(x)) = normalize(x) for every text x
C5_Idempotent == npc = "twice" => nz = ny

(***************************************************************************)
(* SpecPage: one page of one document searched for one term                *)
(***************************************************************************)
MaxWords == 3

\* a, b, ab, a-, -
WordPool == {<<97>>, <<98>>, <<97, 98>>, <<97, 45>>, <<45>>}

\* a, ab, "a a", "a b", A, -
TermPool == {<<97>>, <<97, 98>>, <<97, 32, 97>>, <<97, 32, 98>>, <<65>>, <<45>>}

Cells == [text : WordPool, eol : BOOLEAN]

\* the pages of at most n words whose extractions succeed
PagesUpTo(n) ==
    {[cells |-> c, text_ok |-> TRUE, words_ok |-> TRUE,
      fitz_attr |-> TRUE] :
        c \in UNION {[1..k -> Cells] : k \in 0..n}}

PageInit ==
    /\ pterm \in TermPool
    /\ pexact \in BOOLEAN
    /\ ppage \in PagesUpTo(MaxWords)
    /\ pblocks = <<>>
    /\ pmatches = <<>>
    /\ ppc = "input"

\* bond_hyphenated_words on the words of the page
BondPage ==
    /\ ppc = "input"
    /\ pblocks' = bond_hyphenated_words(PageWords(ppage))
    /\ ppc' = "bonded"
    /\ UNCHANGED <<pterm, pexact, ppage, pmatches>>
    /\ UNCHANGED <<normVars, foldVars, docVars, appVars>>

\* search_text_in_pdf on the document whose only page is the page
SearchOnePage ==
    /\ ppc = "bonded"
    /\ pmatches' = search_pages([name |-> "doc", pages |-> <<ppage>>], pterm, pexact)
    /\ ppc' = "searched"
    /\ UNCHANGED <<pterm, pexact, ppage, pblocks>>
    /\ UNCHANGED <<normVars, foldVars, docVars, appVars>>

PageNext == BondPage \/ SearchOnePage

InitPage == PageInit /\ NormIdle /\ FoldIdle /\ DocIdle /\ AppIdle

SpecPage == InitPage /\ [][PageNext]_vars

(***************************************************************************)
(* SpecFold: a page word and a search term that differ only in letter case *)
(* and in diacritics.  The term starts as the word and is changed one      *)
(* letter at a time; then the one-word page is searched for it.            *)
(***************************************************************************)
MaxFoldLen == 2
MaxMarks == 1

\* str.upper() of one character
UpperChar(c) ==
    CASE c \in 97..122  -> <<c - 32>>      \* a..z
      [] c \in 224..254 /\ c # 247 -> <<c - 32>>  \* Latin-1 small letters
      [] c = 181        -> <<924>>         \* MICRO SIGN -> CAPITAL MU
      [] c = 223        -> <<83, 83>>      \* SHARP S -> SS
      [] c = 255        -> <<376>>         \* y WITH DIAERESIS
      [] c = 305        -> <<73>>          \* DOTLESS I -> I
      [] c = 322        -> <<321>>         \* l WITH STROKE
      [] c = 837        -> <<921>>         \* COMBINING YPOGEGRAMMENI -> CAPITAL IOTA
      [] c \in {962, 963} -> <<931>>       \* FINAL SIGMA, SMALL SIGMA -> CAPITAL SIGMA
      [] OTHER          -> <<c>>

\* str.casefold() of one character, the case folding of the Unicode standard
CaseFoldChar(c) ==
    CASE c \in 65..90   -> <<c + 32>>
      [] c \in 192..222 /\ c # 215 -> <<c + 32>>
      [] c = 181        -> <<956>>         \* MICRO SIGN -> SMALL MU
      [] c = 223        -> <<115, 115>>    \* SHARP S -> ss
      [] c = 304        -> <<105, 775>>
      [] c = 321        -> <<322>>
      [] c = 837        -> <<953>>         \* COMBINING YPOGEGRAMMENI -> SMALL IOTA
      [] c \in {931, 962} -> <<963>>       \* CAPITAL and FINAL SIGMA -> SMALL SIGMA
      [] OTHER          -> <<c>>

\* the case folding of a text
CaseFold(text) == Flatten([i \in 1..Len(text) |-> CaseFoldChar(text[i])])

\* normalize as section 4.1 of the specification words its step 6: the steps
\* of lines 201-213, then case folding where line 215 calls lower()
CaseFoldedForm(text) == reshape(CaseFold(normalize_flags(text, FALSE, TRUE, TRUE)))

\* the letter with a diacritic added (precomposed) or taken away
AccentVariants(c) ==
    CASE c = 101 -> {233}
      [] c = 233 -> {101}
      [] c = 69  -> {201}
      [] c = 201 -> {69}
      [] c = 73  -> {304}
      [] c = 304 -> {73}
      [] c = 108 -> {322}        \* l, l WITH STROKE
      [] c = 322 -> {108}
      [] c = 76  -> {321}
      [] c = 321 -> {76}
      [] OTHER   -> {}

\* e, e with acute, I, i, I with dot above, dotless i, l, l with stroke,
\* sharp s, capital sigma, final sigma, small sigma
FoldAlphabet == {101, 233, 73, 105, 304, 305, 108, 322, 223, 931, 962, 963}

\* "Cafe" with e acute, and every word of 1..MaxFoldLen letters
FoldWords ==
    {<<67, 97, 102, 233>>} \cup (TextsUpTo(FoldAlphabet, MaxFoldLen) \ {<<>>})

FoldInit ==
    /\ fx \in FoldWords
    /\ fy = fx
    /\ fmatches = <<>>
    /\ fpc = "vary"

\* letter k of the term changes case: it becomes its upper() or its lower()
ChangeCase ==
    /\ fpc = "vary"
    /\ \E k \in 1..Len(fy) : \E d \in {UpperChar(fy[k]), LowerChar(fy[k])} :
          /\ d # <<fy[k]>>
          /\ Len(fy) - 1 + Len(d) <= Len(fx) + MaxMarks
          /\ fy' = SubSeq(fy, 1, k - 1) \o d \o SubSeq(fy, k + 1, Len(fy))
    /\ UNCHANGED <<fx, fmatches, fpc>>
    /\ UNCHANGED <<normVars, pageVars, docVars, appVars>>

\* letter k of the term gains or loses its precomposed diacritic
ChangeAccent ==
    /\ fpc = "vary"
    /\ \E k \in 1..Len(fy) : \E d \in AccentVariants(fy[k]) :
          fy' = [fy EXCEPT ![k] = d]
    /\ UNCHANGED <<fx, fmatches, fpc>>
    /\ UNCHANGED <<normVars, pageVars, docVars, appVars>>

\* a combining acute accent is put after letter k of the term
AddCombiningMark ==
    /\ fpc = "vary"
    /\ Len(fy) < Len(fx) + MaxMarks
    /\ \E k \in 1..Len(fy) :
          fy' = SubSeq(fy, 1, k) \o <<769>> \o SubSeq(fy, k + 1, Len(fy))
    /\ UNCHANGED <<fx, fmatches, fpc>>
    /\ UNCHANGED <<normVars, pageVars, docVars, appVars>>

\* search_text_in_pdf, without exact_match, for the term on the document
\* whose only page holds the word alone
SearchFolded ==
    /\ fpc = "vary"
    /\ fmatches' = search_pages(
                      [name |-> "doc",
                       pages |-> <<[cells |-> <<[text |-> fx, eol |-> TRUE]>>,
                                    text_ok |-> TRUE, words_ok |-> TRUE,
                                    fitz_attr |-> TRUE]>>],
                      fy, FALSE)
    /\ fpc' = "searched"
    /\ UNCHANGED <<fx, fy>>
    /\ UNCHANGED <<normVars, pageVars, docVars, appVars>>

FoldNext == ChangeCase \/ ChangeAccent \/ AddCombiningMark \/ SearchFolded

InitFold == FoldInit /\ NormIdle /\ PageIdle /\ DocIdle /\ AppIdle

SpecFold == InitFold /\ [][FoldNext]_vars

\* C9: of two texts that differ only in letter case and in diacritics, and
\* that mark removal and case folding (steps 5 and 6 of the normalizer as
\* the specification words them) make equal, normalize gives the same
\* result, and the one is found on a page that holds the other under
\* substring search.
C9_CaseAccentInvariant ==
    CaseFoldedForm(fx) = CaseFoldedForm(fy) =>
        /\ normalize(fx) = normalize(fy)
        /\ fpc = "searched" => fmatches # <<>>

\* the number of whitespace-delimited tokens of the normalized term
TermTokens == Len(Split(normalize(pterm)))

\* the rectangles of the n bonded runs that follow the first i runs
RunBoxes(i, n) == [j \in 1..n |-> pblocks[i + j][2]]

\* words k and k+1 of the page, the first ending with a hyphen character
HyphenPair(k) ==
    /\ k \in 1..(Len(ppage.cells) - 1)
    /\ EndsWithHyphen(ppage.cells[k].text)

\* a hyphen pair that is no part of a longer chain: the word before it does
\* not end with a hyphen, and its second word is the last word of the page
\* or does not end with a hyphen
StandalonePair(k) ==
    /\ HyphenPair(k)
    /\ k > 1 => ~EndsWithHyphen(ppage.cells[k - 1].text)
    /\ k + 1 < Len(ppage.cells) => ~EndsWithHyphen(ppage.cells[k + 1].text)

\* the first word of the pair without its last character, then the second
JoinedWord(k) ==
    SubSeq(ppage.cells[k].text, 1, Len(ppage.cells[k].text) - 1)
        \o ppage.cells[k + 1].text

\* the bonded runs hold the pair as one run with the first word's rectangle
BondedAsOne(k) == \E r \in 1..Len(pblocks) : pblocks[r] = <<JoinedWord(k), k>>

\* the records hold one whose rectangle list is the first word's rectangle alone
FoundAtFirstBox(k) == \E m \in 1..Len(pmatches) : pmatches[m].rects = <<k>>

C7_RectsAreTermWindow ==
    ppc = "searched" =>
        \A m \in 1..Len(pmatches) :
            /\ Len(pmatches[m].rects) = TermTokens
            /\ \E i \in 0..(Len(pblocks) - TermTokens) :
                  pmatches[m].rects = RunBoxes(i, TermTokens)

\* a two-token term found on a page of three runs: a record of exactly two
\* rectangles, those of two consecutive runs
C7_Witness ==
    /\ ppc = "searched"
    /\ TermTokens = 2
    /\ Len(pblocks) = 3
    /\ Len(pmatches) >= 1
    /\ pmatches[1].rects = <<1, 2>>

\* the page passes the page-level check: the normalized term is a substring
\* of the normalized page text
PassesPageCheck == IsSubstring(normalize(pterm), normalize(PageText(ppage)))

\* the normalized texts of the n bonded runs that follow the first i runs,
\* joined by single spaces
RunsText(i, n) == JoinSpace([j \in 1..n |-> normalize(pblocks[i + j][1])])

\* the comparison of the window that follows the first i runs
WindowSatisfies(i) ==
    IF pexact THEN RunsText(i, TermTokens) = normalize(pterm)
    ELSE IsSubstring(normalize(pterm), RunsText(i, TermTokens))

\* the starts of the windows that satisfy the comparison
SatisfyingWindows == {i \in 0..(Len(pblocks) - TermTokens) : WindowSatisfies(i)}

\* C8: on a page that passes the page-level check there is one record for
\* each window of n consecutive bonded runs whose normalized space-joined
\* text equals the normalized term (exact_match) or contains it (otherwise),
\* and no other record: overlapping windows are each reported, and a window
\* that strictly contains the term is reported only without exact_match.
C8_RecordIffWindowSatisfies ==
    ppc = "searched" /\ PassesPageCheck =>
        /\ Len(pmatches) = Cardinality(SatisfyingWindows)
        /\ \A i \in SatisfyingWindows :
              \E m \in 1..Len(pmatches) : pmatches[m].rects = RunBoxes(i, TermTokens)
        /\ \A m \in 1..Len(pmatches) :
              \E i \in SatisfyingWindows : pmatches[m].rects = RunBoxes(i, TermTokens)

\* the term "a" searched with exact_match on the page "a" "ab" "a": the
\* windows "a" are reported, the window "ab", which strictly contains the
\* term, is not
C8_Witness ==
    /\ ppc = "searched"
    /\ pexact
    /\ pterm = <<97>>
    /\ Len(pblocks) = 3
    /\ pblocks[2][1] = <<97, 98>>
    /\ Len(pmatches) = 2
    /\ pmatches[1].rects = <<1>>
    /\ pmatches[2].rects = <<3>>

\* the last word of the chain of hyphen-ended words that starts at word k
RECURSIVE ChainEnd(_)
ChainEnd(k) ==
    IF k = Len(ppage.cells) \/ ~EndsWithHyphen(ppage.cells[k].text) THEN k
    ELSE ChainEnd(k + 1)

\* words a..b as one run: every word but the last without its last
\* character, under the box of word a
ChainRun(a, b) ==
    <<Flatten([j \in 1..(b - a + 1) |->
                  LET w == ppage.cells[a + j - 1].text
                  IN  IF a + j - 1 < b THEN SubSeq(w, 1, Len(w) - 1) ELSE w]),
      a>>

\* the page words cut into chains, from word k on
RECURSIVE ChainsFrom(_)
ChainsFrom(k) ==
    IF k > Len(ppage.cells) THEN <<>>
    ELSE <<ChainRun(k, ChainEnd(k))>> \o ChainsFrom(ChainEnd(k) + 1)

\* the number of merges: the words other than the last that end with a hyphen
Merges ==
    Cardinality({k \in 1..(Len(ppage.cells) - 1) : EndsWithHyphen(ppage.cells[k].text)})

\* C15: bond_hyphenated_words returns; no run but the last ends with a
\* hyphen character; every chain of hyphen-ended words is one run under the
\* box of its first word; the runs number the words minus the merges; a last
\* word that ends with a hyphen keeps it.
C15_ChainsCollapse ==
    ppc # "input" =>
        /\ \A k \in 1..(Len(pblocks) - 1) : ~EndsWithHyphen(pblocks[k][1])
        /\ pblocks = ChainsFrom(1)
        /\ Len(pblocks) = Len(ppage.cells) - Merges
        /\ (ppage.cells # <<>> /\ EndsWithHyphen(ppage.cells[Len(ppage.cells)].text)
               => EndsWithHyphen(pblocks[Len(pblocks)][1]))

\* the chain "a-", "a-", "b" has become the single run "aab" under box 1
C15_Witness ==
    /\ ppc = "bonded"
    /\ Len(ppage.cells) = 3
    /\ ppage.cells[1].text = <<97, 45>>
    /\ ppage.cells[2].text = <<97, 45>>
    /\ ppage.cells[3].text = <<98>>
    /\ pblocks = <<(<<(<<97, 97, 98>>), 1>>)>>

\* C17: the page-level rejection loses no match: when some window of
\* consecutive bonded runs satisfies the comparison against the term, the
\* normalized term is a substring of the normalized page text.
C17_PageCheckLosesNoMatch ==
    ppc # "input" => (SatisfyingWindows # {} => PassesPageCheck)

\* C18: every record search_text_in_pdf returns has a non-empty rectangle
\* list, and a term that normalize reduces to the empty text gives no record.
C18_RecordsHaveRectangles ==
    /\ \A j \in 1..Len(pmatches) : pmatches[j].rects # <<>>
    /\ (normalize(pterm) = <<>> => pmatches = <<>>)

(***************************************************************************)
(* SpecDoc: search_text_in_pdf on one document whose pages may fail in     *)
(* page.get_text("text") or in page.get_text("words")                      *)
(***************************************************************************)
MaxPages == 2

\* a, b, -
DocTerms == {<<97>>, <<98>>, <<45>>}

\* the one-word pages "a" and "b", each extraction succeeding or raising,
\* read with a pymupdf that has the attribute fitz (f) or has not
PagePool(f) ==
    {[cells |-> <<[text |-> w, eol |-> TRUE]>>, text_ok |-> t, words_ok |-> o,
      fitz_attr |-> f] :
        w \in {<<97>>, <<98>>}, t \in BOOLEAN, o \in BOOLEAN}

DocInit ==
    /\ dterm \in DocTerms
    /\ dexact \in BOOLEAN
    /\ \E f \in BOOLEAN :
          ddoc \in {[name |-> "doc", pages |-> ps] :
                       ps \in UNION {[1..k -> PagePool(f)] : k \in 1..MaxPages}}
    /\ dmatches = <<>>
    /\ dpc = "input"

\* search_text_in_pdf(pdf_path, search_term, exact_match)
SearchDocument ==
    /\ dpc = "input"
    /\ dmatches' = search_pages(ddoc, dterm, dexact)
    /\ dpc' = "searched"
    /\ UNCHANGED <<dterm, dexact, ddoc>>
    /\ UNCHANGED <<normVars, pageVars, foldVars, appVars>>

DocNext == SearchDocument

InitDoc == DocInit /\ NormIdle /\ PageIdle /\ FoldIdle /\ AppIdle

SpecDoc == InitDoc /\ [][DocNext]_vars

\* an extraction of the page raises
ExtractionFails(page) == ~page.text_ok \/ ~page.words_ok

\* the records of the document when every page whose extraction raises is
\* taken to have no match
MatchesOfSoundPages ==
    Flatten([p \in 1..Len(ddoc.pages) |->
                IF ExtractionFails(ddoc.pages[p]) THEN <<>>
                ELSE SearchPage(ddoc.name, p, ddoc.pages[p], normalize(dterm), dexact)])

MaxDocs == 1
MaxSearches == 2
MaxSorts == 2
MaxTreeDocs == 2
MaxTreeSearches == 1

\* the term typed in the search box ("a") or nothing
SearchTerms == {<<>>, <<97>>}

\* self.exact_match.get() (line 570): the check box of lines 436-439 is
\* enabled whenever a search can be started, so either value can be read
ExactMatchValues == BOOLEAN

OkPage(words) ==
    [cells |-> [k \in 1..Len(words) |-> [text |-> words[k], eol |-> TRUE]],
     text_ok |-> TRUE, words_ok |-> TRUE, fitz_attr |-> TRUE]

\* the documents a folder may hold: one of two pages ("a", then "ab"), one
\* of a single page without the term ("b"), one that cannot be opened
DocPool ==
    {[openable |-> TRUE, pages |-> <<OkPage(<<(<<97>>)>>), OkPage(<<(<<97, 98>>)>>)>>],
     [openable |-> TRUE, pages |-> <<OkPage(<<(<<98>>)>>)>>],
     [openable |-> FALSE, pages |-> <<>>]}

\* the file names "1.pdf" and "2.pdf"
BaseNames == {<<49, 46, 112, 100, 102>>, <<50, 46, 112, 100, 102>>}

\* the file name "1.pdf" alone, for the sessions whose rows are never sorted
OneBaseName == {<<49, 46, 112, 100, 102>>}

\* the path of the file listed at position at by Path.glob, named base in
\* its directory; files of one name are in different directories
Path(at, base) == [at |-> at, base |-> base]

\* os.path.basename(pdf_path) (line 291)
basename(path) == path.base

\* os.path.basename(src) for the text src (line 611): what follows the last
\* separator "/"
basename_str(p) ==
    LET seps == {i \in 1..Len(p) : p[i] = 47}
        last == CHOOSE i \in seps : \A j \in seps : j <= i
    IN  IF seps = {} THEN p ELSE SubSeq(p, last + 1, Len(p))

\* os.path.splitext(p)[0] (line 611): p without its last suffix; a name
\* that has only dots before its last dot has no suffix
splitext_root(p) ==
    LET dots == {i \in 1..Len(p) : p[i] = 46}
        last == CHOOSE i \in dots : \A j \in dots : j <= i
    IN  IF dots = {} THEN p
        ELSE IF \A j \in 1..(last - 1) : p[j] = 46 THEN p
        ELSE SubSeq(p, 1, last - 1)

\* the lists of at most n PDF files of a directory, documents of docs named
\* by names, in the order of Path.glob; name is what search_text_in_pdf
\* puts in its records, basename(pdf_path)
FileLists(docs, names, n) ==
    UNION {{[i \in 1..k |-> [path |-> Path(i, bs[i]),
                             name |-> basename(Path(i, bs[i])),
                             openable |-> ks[i].openable,
                             pages |-> ks[i].pages]] :
                ks \in [1..k -> docs], bs \in [1..k -> names]}
           : k \in 0..n}

\* config["default_folder"] names no directory
NoDirectory == [isdir |-> FALSE, files |-> <<>>]

\* the values of config["default_folder"]: a directory of at most n PDF
\* files, or no directory
FoldersOf(docs, names, n) ==
    {[isdir |-> TRUE, files |-> fs] : fs \in FileLists(docs, names, n)}
        \cup {NoDirectory}

Folders == FoldersOf(DocPool, OneBaseName, MaxDocs)

\* src/v1_12.py:180-183
get_pdf_files(f) == f.files

\* src/v1_12.py:263: pymupdf.open raises for a file it cannot open
OpenRaises(doc) == ~doc.openable

(* the texts of count_label *)
Label(text, n) == [text |-> text, n |-> n]

\* a callback scheduled with root.after(0, ...)
Callback(kind, n, row) == [kind |-> kind, n |-> n, row |-> row]

\* lines 623-629, up to the root.update() of _set_busy
finish_search(u, total) ==
    [u EXCEPT !.count_label = IF total > 0 THEN Label("found", total)
                              ELSE Label("no_match", 0),
              !.search_button = "normal",
              !.cancel_button = "disabled",
              !.busy = FALSE]

RECURSIVE Str(_)
\* str(n) for n >= 0: the decimal digits
Str(n) == IF n < 10 THEN <<48 + n>> ELSE Append(Str(n \div 10), 48 + (n % 10))

RECURSIVE int_of(_)
\* int(s) for a text of decimal digits (line 781)
int_of(s) ==
    IF s = <<>> THEN 0
    ELSE 10 * int_of(SubSeq(s, 1, Len(s) - 1)) + (s[Len(s)] - 48)

\* line 613: values=(t, f"{ti}, {pn}", sn), the texts of the cells of the
\* columns No, Kaynak, Eslesme
TreeRow(t, title, page_num, snippet) ==
    [No |-> Str(t), Kaynak |-> title \o <<44, 32>> \o Str(page_num),
     Eslesme |-> snippet]

\* what a scheduled callback does to the widgets
RunOne(u, cb) ==
    CASE cb.kind = "no_pdf"   -> [u EXCEPT !.count_label = Label("no_pdf", 0)]  \* 585-586
      [] cb.kind = "finish"   -> finish_search(u, cb.n)                         \* 587, 621
      [] cb.kind = "reset"    -> [u EXCEPT !.progress = 0, !.tree = <<>>]       \* 591-594
      [] cb.kind = "insert"   -> [u EXCEPT !.tree = Append(u.tree, cb.row)]     \* 611-613
      [] cb.kind = "progress" -> [u EXCEPT !.progress = cb.n]                   \* 616-619

\* line 610: (path, page_num, rects, snippet) for the match m of the file
Record(path, m) ==
    [path |-> path, page |-> m.page, rects |-> m.rects, snippet |-> m.snippet]

\* a new _run_search thread (line 571)
NewWorker(f, term, exact_match) ==
    [pc |-> "start", folder |-> f, term |-> term, exact_match |-> exact_match,
     pdf_list |-> <<>>, index |-> 1, page |-> 1, matches |-> <<>>,
     matches_none |-> FALSE, pos |-> 1, total |-> 0,
     \* history: the flag was seen set; the record of every match the scans
     \* returned; the records this thread appended to self.results
     saw_cancel |-> FALSE, found |-> <<>>, appended |-> <<>>]

\* the window after __init__ (lines 310-334) with the folder of the
\* configuration in pool.  starting: the calls of start_search waiting in
\* the root.update() of line 567 -> 756, the innermost last, each with its
\* local folder and term
InitIn(pool) ==
    /\ folder \in pool
    /\ results = <<>>
    /\ cancel_event = FALSE
    /\ ui = [count_label |-> Label("", 0), search_button |-> "normal",
             cancel_button |-> "disabled", busy |-> FALSE, progress |-> 0,
             tree |-> <<>>, sort_column |-> "None", sort_reverse |-> FALSE,
             sorts |-> 0, starting |-> <<>>]
    /\ after = <<>>
    /\ workers = <<>>
    /\ NormIdle /\ PageIdle /\ FoldIdle /\ DocIdle

Init == InitIn(Folders)

other == <<normVars, pageVars, foldVars, docVars>>

\* the searches begun: the threads started and the calls of start_search
\* that have not started theirs yet
Begun == Len(workers) + Len(ui.starting)

\* lines 544-549; the button is disabled while busy (line 747).  The folder
\* is read by start_search only, so no folder is chosen once the last search
\* of the run has begun.
browse_folder_in(pool) ==
    /\ ~ui.busy
    /\ \E f \in pool \ {folder} : folder' = f
    /\ UNCHANGED <<results, cancel_event, ui, after, workers, other>>

browse_folder == Begun < MaxSearches /\ browse_folder_in(Folders)

\* lines 551-567 and 743-755, up to the root.update() of line 756; reachable
\* by the search button or, while not busy, by <Return> in the search box
\* (lines 413, 752-753)
start_search ==
    /\ ui.search_button = "normal" \/ ~ui.busy
    /\ Begun < MaxSearches
    /\ \E term \in SearchTerms :
          IF ~folder.isdir
          THEN /\ ui' = [ui EXCEPT !.count_label = Label("invalid_folder", 0)]
               /\ UNCHANGED cancel_event
          ELSE IF term = <<>>
          THEN /\ ui' = [ui EXCEPT !.count_label = Label("enter_term", 0)]
               /\ UNCHANGED cancel_event
          ELSE /\ cancel_event' = FALSE
               /\ ui' = [ui EXCEPT !.search_button = "disabled",
                                   !.cancel_button = "normal",
                                   !.busy = TRUE,
                                   !.starting = Append(ui.starting,
                                       [folder |-> folder, term |-> term])]
    /\ UNCHANGED <<folder, results, after, workers, other>>

\* lines 568-571: root.update() returns when nothing is pending, and the
\* innermost waiting start_search goes on
start_search_thread ==
    /\ ui.starting # <<>>
    /\ after = <<>>
    /\ \E exact_match \in ExactMatchValues :
          LET n == Len(ui.starting)
              s == ui.starting[n]
          IN  /\ ui' = [ui EXCEPT !.count_label = Label("searching", 0),
                                  !.starting = SubSeq(ui.starting, 1, n - 1)]
              /\ workers' = Append(workers, NewWorker(s.folder, s.term, exact_match))
    /\ UNCHANGED <<folder, results, cancel_event, after, other>>

\* lines 573-578 and 743-755; the root.update() that ends it leaves nothing
\* to run after it
cancel_search ==
    /\ ui.cancel_button = "normal"
    /\ cancel_event' = TRUE
    /\ ui' = [ui EXCEPT !.cancel_button = "disabled",
                        !.count_label = Label("cancelled", 0),
                        !.search_button = "normal",
                        !.busy = FALSE]
    /\ UNCHANGED <<folder, results, after, workers, other>>

\* lines 675-683, the command of the context menu (lines 693, 699-705) for
\* a row of the tree
copy_reference ==
    /\ ui.tree # <<>>
    /\ ui' = [ui EXCEPT !.count_label = Label("source_copied", 0)]
    /\ UNCHANGED <<folder, results, cancel_event, after, workers, other>>

\* lines 711-721, the command of the context menu (lines 694, 699-705) for
\* a row of the tree
copy_snippet ==
    /\ ui.tree # <<>>
    /\ ui' = [ui EXCEPT !.count_label = Label("snippet_copied", 0)]
    /\ UNCHANGED <<folder, results, cancel_event, after, workers, other>>

RECURSIVE TextLess(_, _)
\* s < t for two Python strings: by code point, a proper prefix first
TextLess(s, t) ==
    IF t = <<>> THEN FALSE
    ELSE IF s = <<>> THEN TRUE
    ELSE IF s[1] # t[1] THEN s[1] < t[1]
    ELSE TextLess(Tail(s), Tail(t))

\* lines 465-467 and 779-785: key(r1) < key(r2) for the column: the cell
\* as an int for No, the text of the cell for Kaynak and Eslesme
KeyLess(column, r1, r2) ==
    IF column = "No" THEN int_of(r1[column]) < int_of(r2[column])
    ELSE TextLess(r1[column], r2[column])

\* row r goes behind the rows that do not come after it: list.sort is
\* stable, also with reverse=True
InsertRow(sorted, r, column, reverse) ==
    LET after_r(x) == IF reverse THEN KeyLess(column, x, r) ELSE KeyLess(column, r, x)
        n == Cardinality({i \in 1..Len(sorted) : ~after_r(sorted[i])})
    IN  SubSeq(sorted, 1, n) \o <<r>> \o SubSeq(sorted, n + 1, Len(sorted))

RECURSIVE SortRows(_, _, _, _)
\* lines 779-790: the rows in the order data.sort gives them
SortRows(rows, column, reverse, sorted) ==
    IF rows = <<>> THEN sorted
    ELSE SortRows(Tail(rows), column, reverse,
                  InsertRow(sorted, Head(rows), column, reverse))

\* lines 758-790: a click on the heading of a column
sort_tree ==
    /\ ui.sorts < MaxSorts
    /\ \E column \in {"No", "Kaynak", "Eslesme"} :
          LET reverse == IF ui.sort_column = column THEN ~ui.sort_reverse ELSE FALSE
          IN  ui' = [ui EXCEPT !.sort_column = column,
                               !.sort_reverse = reverse,
                               !.tree = SortRows(ui.tree, column, reverse, <<>>),
                               !.sorts = ui.sorts + 1]
    /\ UNCHANGED <<folder, results, cancel_event, after, workers, other>>

\* the event loop (mainloop, or the root.update() of line 756) runs the
\* oldest pending callback
RunCallback ==
    /\ after # <<>>
    /\ ui' = RunOne(ui, Head(after))
    /\ after' = Tail(after)
    /\ UNCHANGED <<folder, results, cancel_event, workers, other>>

\* lines 581-590: the list of the files, then the first access to what is
\* shared: root.after of line 585, or self.results.clear()
WorkerStartOf(k) ==
    LET w == workers[k]
        pdf_list == get_pdf_files(w.folder)
    IN  /\ w.pc = "start"
        /\ IF pdf_list = <<>>
           THEN /\ after' = Append(after, Callback("no_pdf", 0, <<>>))
                /\ workers' = [workers EXCEPT ![k].pc = "finish"]
                /\ UNCHANGED results
           ELSE /\ results' = <<>>
                /\ workers' = [workers EXCEPT ![k].pc = "reset",
                                              ![k].pdf_list = pdf_list]
                /\ UNCHANGED after
        /\ UNCHANGED <<folder, cancel_event, ui, other>>

\* lines 591-594: root.after of the callback that empties the tree
WorkerResetOf(k) ==
    LET w == workers[k]
    IN  /\ w.pc = "reset"
        /\ after' = Append(after, Callback("reset", Len(w.pdf_list), <<>>))
        /\ workers' = [workers EXCEPT ![k].pc = "loop"]
        /\ UNCHANGED <<folder, results, cancel_event, ui, other>>

\* lines 596-600 and 263: the head of the document loop: past the last
\* document the thread goes to line 621; otherwise it reads the flag and
\* opens the next document
WorkerNextDocumentOf(k) ==
    LET w == workers[k]
    IN  /\ w.pc = "loop"
        /\ IF w.index > Len(w.pdf_list)
           THEN workers' = [workers EXCEPT ![k].pc = "finish"]
           ELSE IF cancel_event
           THEN workers' = [workers EXCEPT ![k].pc = "finish",
                                           ![k].saw_cancel = TRUE]
           ELSE IF OpenRaises(w.pdf_list[w.index])
           \* handle_exception (lines 247-258) returns None
           THEN workers' = [workers EXCEPT ![k].pc = "emit",
                                           ![k].matches_none = TRUE]
           ELSE workers' = [workers EXCEPT ![k].pc = "scan",
                                           ![k].page = 1,
                                           ![k].matches = <<>>,
                                           ![k].matches_none = FALSE]
        /\ UNCHANGED <<folder, results, cancel_event, ui, after, other>>

\* lines 266-291: one page of the open document; line 292 after the last
WorkerScanPageOf(k) ==
    LET w == workers[k]
        doc == w.pdf_list[w.index]
    IN  /\ w.pc = "scan"
        /\ IF w.page <= Len(doc.pages)
           THEN LET recs == SearchPage(doc.name, w.page, doc.pages[w.page],
                                       normalize(w.term), w.exact_match)
                    kept == [j \in 1..Len(recs) |-> Record(doc.path, recs[j])]
                IN  workers' = [workers EXCEPT ![k].matches = w.matches \o recs,
                                               ![k].found = w.found \o kept,
                                               ![k].page = w.page + 1]
           ELSE workers' = [workers EXCEPT ![k].pc = "emit", ![k].pos = 1]
        /\ UNCHANGED <<folder, results, cancel_event, ui, after, other>>

\* lines 606-609: the head of the loop over the matches of the document;
\* iterating over None raises TypeError, which nothing in the thread
\* catches; past the last match the thread goes to line 615; otherwise it
\* reads the flag
WorkerNextMatchOf(k) ==
    LET w == workers[k]
    IN  /\ w.pc = "emit"
        /\ IF w.matches_none
           THEN workers' = [workers EXCEPT ![k].pc = "crashed"]
           ELSE IF w.pos > Len(w.matches)
           THEN workers' = [workers EXCEPT ![k].pc = "progress"]
           ELSE IF cancel_event
           THEN workers' = [workers EXCEPT ![k].pc = "progress",
                                           ![k].saw_cancel = TRUE]
           ELSE workers' = [workers EXCEPT ![k].pc = "append",
                                           ![k].total = w.total + 1]
        /\ UNCHANGED <<folder, results, cancel_event, ui, after, other>>

\* the record put in front of the others (a mutation of AppendRecord)
AppendRecord_front(res, rec) == <<rec>> \o res

\* line 610: self.results.append((path, page_num, rects, snippet))
AppendRecord(res, rec) == Append(res, rec)

\* line 610
WorkerAppendOf(k) ==
    LET w == workers[k]
        m == w.matches[w.pos]
        rec == Record(w.pdf_list[w.index].path, m)
    IN  /\ w.pc = "append"
        /\ results' = AppendRecord(results, rec)
        /\ workers' = [workers EXCEPT ![k].pc = "insert",
                                      ![k].appended = Append(w.appended, rec)]
        /\ UNCHANGED <<folder, cancel_event, ui, after, other>>

\* lines 611-613: root.after of the callback that adds the row to the tree
WorkerInsertOf(k) ==
    LET w == workers[k]
        m == w.matches[w.pos]
        title == splitext_root(basename_str(m.src))
    IN  /\ w.pc = "insert"
        /\ after' = Append(after, Callback("insert", w.total,
                                           TreeRow(w.total, title, m.page, m.snippet)))
        /\ workers' = [workers EXCEPT ![k].pc = "emit", ![k].pos = w.pos + 1]
        /\ UNCHANGED <<folder, results, cancel_event, ui, other>>

\* lines 615-619: root.after of the callback that moves the progress bar
WorkerProgressOf(k) ==
    LET w == workers[k]
    IN  /\ w.pc = "progress"
        /\ after' = Append(after, Callback("progress", w.index, <<>>))
        /\ workers' = [workers EXCEPT ![k].pc = "loop", ![k].index = w.index + 1]
        /\ UNCHANGED <<folder, results, cancel_event, ui, other>>

\* lines 587 and 621: root.after of _finish_search, and the thread returns
WorkerFinishOf(k) ==
    LET w == workers[k]
    IN  /\ w.pc = "finish"
        /\ after' = Append(after, Callback("finish", w.total, <<>>))
        /\ workers' = [workers EXCEPT ![k].pc = "done"]
        /\ UNCHANGED <<folder, results, cancel_event, ui, other>>

\* the scheduler runs one of the threads
WorkerStart == \E k \in 1..Len(workers) : WorkerStartOf(k)

WorkerReset == \E k \in 1..Len(workers) : WorkerResetOf(k)

WorkerNextDocument == \E k \in 1..Len(workers) : WorkerNextDocumentOf(k)

WorkerScanPage == \E k \in 1..Len(workers) : WorkerScanPageOf(k)

WorkerNextMatch == \E k \in 1..Len(workers) : WorkerNextMatchOf(k)

WorkerAppend == \E k \in 1..Len(workers) : WorkerAppendOf(k)

WorkerInsert == \E k \in 1..Len(workers) : WorkerInsertOf(k)

WorkerProgress == \E k \in 1..Len(workers) : WorkerProgressOf(k)

WorkerFinish == \E k \in 1..Len(workers) : WorkerFinishOf(k)

Next ==
    \/ browse_folder
    \/ start_search
    \/ start_search_thread
    \/ cancel_search
    \/ copy_reference
    \/ copy_snippet
    \/ RunCallback
    \/ WorkerStart
    \/ WorkerReset
    \/ WorkerNextDocument
    \/ WorkerScanPage
    \/ WorkerNextMatch
    \/ WorkerAppend
    \/ WorkerInsert
    \/ WorkerProgress
    \/ WorkerFinish

Spec == Init /\ [][Next]_vars

(***************************************************************************)
(* SpecTree: the session of MaxTreeSearches searches over a folder of up   *)
(* to MaxTreeDocs documents, with the result list sorted by up to MaxSorts *)
(* clicks on the column headings (_sort_tree)                              *)
(***************************************************************************)
\* the documents of the session pool, and one whose single page holds the
\* term twice ("a", "a")
TreeDocPool ==
    DocPool \cup {[openable |-> TRUE, pages |-> <<OkPage(<<(<<97>>), (<<97>>)>>)>>]}

TreeFolders == FoldersOf(TreeDocPool, BaseNames, MaxTreeDocs)

InitTree == InitIn(TreeFolders)

\* browse_folder in a session of at most MaxTreeSearches searches
first_folder == Begun < MaxTreeSearches /\ browse_folder_in(TreeFolders)

\* start_search in a session of at most MaxTreeSearches searches
first_search == Begun < MaxTreeSearches /\ start_search

NextTree ==
    \/ first_folder
    \/ first_search
    \/ start_search_thread
    \/ cancel_search
    \/ copy_reference
    \/ copy_snippet
    \/ sort_tree
    \/ RunCallback
    \/ WorkerStart
    \/ WorkerReset
    \/ WorkerNextDocument
    \/ WorkerScanPage
    \/ WorkerNextMatch
    \/ WorkerAppend
    \/ WorkerInsert
    \/ WorkerProgress
    \/ WorkerFinish

SpecTree == InitTree /\ [][NextTree]_vars

\* lines 634-636 and 727-729: the record taken for the selected row, the
\* row at position i of the tree (tree.index is i - 1)
SelectedRecord(i) == results[i]

\* the row displays the record: the cells Kaynak and Eslesme hold the texts
\* line 613 makes for the file, the page and the snippet of the record
Shows(row, rec) ==
    LET cells == TreeRow(0, splitext_root(basename(rec.path)), rec.page, rec.snippet)
    IN  /\ row.Kaynak = cells.Kaynak
        /\ row.Eslesme = cells.Eslesme

\* C16: self.results has an entry for every row of the tree, and the row at
\* position i displays the record open_selected and _show_in_explorer take
\* for it.
C16_RowShowsItsRecord ==
    \A i \in 1..Len(ui.tree) :
        /\ i <= Len(results)
        /\ Shows(ui.tree[i], SelectedRecord(i))

\* the thread has ended: it returned, or an exception ended it
Stopped(w) == w.pc \in {"done", "crashed"}

\* every thread has ended and every callback scheduled has run
Settled ==
    /\ workers # <<>>
    /\ ui.starting = <<>>
    /\ \A k \in 1..Len(workers) : Stopped(workers[k])
    /\ after = <<>>

\* the thread of the search started last
LastWorker == workers[Len(workers)]

\* the record is in self.results
InResults(path, m) ==
    \E j \in 1..Len(results) :
        results[j] = Record(path, m)

\* C1: a document that cannot be opened contributes no record and the loop
\* goes on with the next document: when the only search of the session has
\* ended without seeing the cancellation flag, every match of every document
\* of the folder that opens is in the results.
C1_FailedDocumentSkipped ==
    Len(workers) = 1 /\ Stopped(workers[1]) /\ ~workers[1].saw_cancel =>
        \A i \in 1..Len(workers[1].folder.files) :
            LET doc == workers[1].folder.files[i]
                ms  == search_pages(doc, workers[1].term, workers[1].exact_match)
            IN  doc.openable => \A j \in 1..Len(ms) : InResults(doc.path, ms[j])

\* the only search of the session ran over several documents and its thread
\* saw the flag set after it had processed at least one of them
CancelledMidScan ==
    /\ Len(workers) = 1
    /\ Len(LastWorker.pdf_list) > 1
    /\ LastWorker.saw_cancel
    /\ LastWorker.index > 1

\* C2: when the flag was set during a search over several documents, seen
\* by the worker after it had processed at least one document, then once
\* the workers have stopped and the callbacks have run the results hold only
\* matches of documents processed before the flag was seen, and the status
\* shown is not the one of a completed search ("N matches found", "no match
\* found").
C2_CancelledSearchEndsCancelled ==
    Settled /\ CancelledMidScan =>
        /\ \A j \in 1..Len(results) : results[j].path.at < LastWorker.index
        /\ ui.count_label.text \notin {"found", "no_match"}

\* C3: a search over a folder without PDF files ends, once the callbacks
\* have run, with no record in the results and with a status other than the
\* one of a search that scanned documents and found nothing, whatever
\* searches ran before it.
C3_EmptyFolderDistinctStatus ==
    Settled /\ LastWorker.folder.files = <<>> =>
        /\ results = <<>>
        /\ ui.count_label.text # "no_match"

\* C4: at no time are two _run_search threads running.
C4_OneWorkerAtATime ==
    Cardinality({k \in 1..Len(workers) : ~Stopped(workers[k])}) <= 1

\* C10: every record found on a page scanned before the worker stopped is in
\* the results, whenever the flag was set (one search in the session).
C10_FoundRecordsKept ==
    Len(workers) = 1 /\ workers[1].pc = "done" =>
        \A i \in 1..Len(workers[1].found) :
            InResults(workers[1].found[i].path, workers[1].found[i])

\* thread k scans a page of its open document in this step
ScansPage(k) ==
    /\ workers[k].pc = "scan"
    /\ workers'[k].page = workers[k].page + 1

\* C11: while the cancellation flag is set no thread starts scanning a page.
C11_NoPageScannedOnceCancelled ==
    [][cancel_event => \A k \in 1..Len(workers) : ~ScansPage(k)]_vars

\* record r1 is discovered before record r2: an earlier document, or the same
\* document and an earlier page, or the same page and an earlier window
DiscoveredBefore(r1, r2) ==
    \/ r1.path.at < r2.path.at
    \/ r1.path = r2.path /\ r1.page < r2.page
    \/ r1.path = r2.path /\ r1.page = r2.page /\ r1.rects[1] < r2.rects[1]

\* the records are in discovery order
InDiscoveryOrder(recs) ==
    \A i, j \in 1..Len(recs) : i < j => DiscoveredBefore(recs[i], recs[j])

\* the step leaves self.results alone, empties it, or puts one record at its end
AppendsOrClears ==
    \/ results' = results
    \/ results' = <<>>
    \/ /\ Len(results') = Len(results) + 1
       /\ SubSeq(results', 1, Len(results)) = results

\* C12: the records a search appends to self.results are in discovery order
\* (document, then page, then window); while one search has been started
\* self.results is exactly what it appended; and no step inserts a record
\* before another or changes a record that is there.
C12_DiscoveryOrder ==
    /\ [](\A k \in 1..Len(workers) : InDiscoveryOrder(workers[k].appended))
    /\ [](Len(workers) = 1 /\ workers[1].pc # "start" => results = workers[1].appended)
    /\ [][AppendsOrClears]_vars

\* one search has put the four records of two documents in self.results:
\* two pages of the first, two windows of one page of the second
C12_Witness ==
    /\ Len(workers) = 1
    /\ Len(results) = 4
    /\ results[1].path.at = 1 /\ results[1].page = 1
    /\ results[2].path.at = 1 /\ results[2].page = 2
    /\ results[3].path.at = 2 /\ results[4].path.at = 2
    /\ results[3].page = results[4].page
    /\ results[3].rects # results[4].rects

\* C14: every search started reaches _finish_search.  _finish_search runs
\* after the start_search of its search and leaves the search button
\* enabled and the window not busy, so once every thread has ended and every
\* callback has run the session is not in the searching state.
C14_SearchReachesFinish ==
    Settled => ~ui.busy /\ ui.search_button = "normal"

====
